---- MODULE Spec2Model ----
(***************************************************************************)
(* Job execution engine of machine-collaboration-utility                   *)
(* (src/server/middleware/jobs/job.js): one job, its finite-state machine, *)
(* its stopwatch, the commands start/pause/resume/cancel as suspendable    *)
(* sequences, and the onenterstate callback that persists and broadcasts.  *)
(*                                                                         *)
(* Every action is one run of a fiber from one suspension point (bwait)    *)
(* to the next: node runs such a stretch without interleaving.             *)
(*                                                                         *)
(* Device registry (src/unnamed/part_000, class Bots): the persisted bot   *)
(* records, the mapping from port to live bot object, and initialize() as  *)
(* a sequence of awaits. It has its own specification, RegSpec; the job's  *)
(* specification runs against a registry that is already initialized.      *)
(***************************************************************************)
EXTENDS Integers, Sequences, FiniteSets, TLC

\* Bounds of the model (not program constants).
MaxCommands == 2      \* commands and bot completions the job receives
MaxMs == 1            \* stopwatch reading, in refresh periods
MaxRecords == 2       \* bot records persisted before the registry starts
MaxPlugins == 2       \* entries of the discovery directory
MaxDiscovered == 1    \* registrations made by discovery strategies

\* JavaScript's null and undefined, kept apart from every number the job holds.
Null == -1
Undefined == -2

VARIABLES
  state,        \* self.fsm.current
  started,      \* self.started: Undefined, or a timestamp (1)
  swRunning,    \* the stopwatch counts and raises its periodic tick
  ms,           \* self.stopwatch.ms
  issued,       \* number of commands received so far
  inflight,     \* the commands suspended at a bwait: [id, kind, pc, dev]
  last,         \* how the command that returned last ended:
                \* [id, kind, result, device]
  transitions,  \* every transition the state machine made: [event, from, to]
  fibers,       \* onenterstate callbacks suspended in their persistence block
  writes,       \* finished persistence attempts: [tid, state, outcome]
  broadcasts,   \* jobEvent messages of onenterstate: [tid, state]
  deviceCalls,  \* operations invoked on the bot
  db,           \* the persisted bot records, by their port, in findAll order
  records0,     \* how many records were persisted when the registry started
  bots,         \* this.bots: entries [key, bot], bot = [rec, port]
  loaded,       \* how many records of the loaded array have their bot inserted
  rpc,          \* where initialize() is suspended
  promise,      \* the promise of initialize(): pending, resolved, rejected
  log,          \* what the registry logged
  failedAt,     \* the step of initialize() that threw, "none" if none did
  strategies,   \* discovery objects whose initialize() was called
  discovered    \* registrations made by discovery strategies so far

jobvars == <<state, started, swRunning, ms, issued, inflight, last, transitions,
             fibers, writes, broadcasts, deviceCalls>>

regvars == <<db, records0, bots, loaded, rpc, promise, log, failedAt,
             strategies, discovered>>

vars == <<state, started, swRunning, ms, issued, inflight, last, transitions,
          fibers, writes, broadcasts, deviceCalls,
          db, records0, bots, loaded, rpc, promise, log, failedAt,
          strategies, discovered>>

JobStates == {"ready", "starting", "running", "pausing", "paused", "resuming",
              "canceling", "canceled", "complete"}
Kinds == {"start", "pause", "resume", "cancel"}
NoResult == [id |-> 0, kind |-> "none", result |-> "none", device |-> "none"]

----------------------------------------------------------------------------
\* The state machine (javascript-state-machine configured by fsmSettings).

\* A cancelable set that leaves the in-flight states out.
cancelableSettled == {"running", "paused"}

cancelable == {"running", "paused", "starting", "pausing", "resuming"}

Row(n, f, t) == [name |-> n, from |-> f, to |-> t]

\* A table that has lost its guard on startFail/pauseFail/resumeFail.
EventsLoose ==
  { Row("start", "ready", "starting"),
    Row("startFail", "starting", "ready"),
    Row("startFail", "canceling", "ready"),
    Row("startDone", "starting", "running"),
    Row("pause", "running", "pausing"),
    Row("pause", "paused", "paused"),
    Row("pauseFail", "pausing", "running"),
    Row("pauseFail", "canceling", "running"),
    Row("pauseDone", "pausing", "paused"),
    Row("resume", "paused", "resuming"),
    Row("resume", "running", "running"),
    Row("resumeFail", "resuming", "paused"),
    Row("resumeFail", "canceling", "paused"),
    Row("resumeDone", "resuming", "running"),
    Row("runningDone", "running", "complete"),
    Row("cancelFail", "canceling", "canceled") }
  \cup { Row("cancel", f, "canceling") : f \in cancelable }

\* A table without the row that ends a cancel.
EventsNoCancelFail ==
  { Row("start", "ready", "starting"),
    Row("startFail", "starting", "ready"),
    Row("startDone", "starting", "running"),
    Row("pause", "running", "pausing"),
    Row("pause", "paused", "paused"),
    Row("pauseFail", "pausing", "running"),
    Row("pauseDone", "pausing", "paused"),
    Row("resume", "paused", "resuming"),
    Row("resume", "running", "running"),
    Row("resumeFail", "resuming", "paused"),
    Row("resumeDone", "resuming", "running"),
    Row("runningDone", "running", "complete") }
  \cup { Row("cancel", f, "canceling") : f \in cancelable }

Events ==
  { Row("start", "ready", "starting"),
    Row("startFail", "starting", "ready"),
    Row("startDone", "starting", "running"),
    Row("pause", "running", "pausing"),
    Row("pause", "paused", "paused"),
    Row("pauseFail", "pausing", "running"),
    Row("pauseDone", "pausing", "paused"),
    Row("resume", "paused", "resuming"),
    Row("resume", "running", "running"),
    Row("resumeFail", "resuming", "paused"),
    Row("resumeDone", "resuming", "running"),
    Row("runningDone", "running", "complete"),
    Row("cancelFail", "canceling", "canceled") }
  \cup { Row("cancel", f, "canceling") : f \in cancelable }

\* fsm.can(event): the event is a method of the machine and has a row for the
\* current state.  An event with no row at all (cancelDone) is no method:
\* calling it throws as well.
Can(event, from) == \E r \in Events : r.name = event /\ r.from = from

Dest(event, from) ==
  (CHOOSE r \in Events : r.name = event /\ r.from = from).to

\* event.indexOf('Done') !== -1
HasDone(event) ==
  event \in {"startDone", "pauseDone", "resumeDone", "runningDone", "cancelDone"}

----------------------------------------------------------------------------
\* getJob(): the projection of the job.

Elapsed(st, m) == IF st # Undefined THEN (IF m # 0 THEN m ELSE Undefined) ELSE Null

GetJob ==
  [ state   |-> state,
    started |-> IF started # Undefined THEN started ELSE Null,
    elapsed |-> Elapsed(started, ms) ]

----------------------------------------------------------------------------
\* onenterstate, as the steps its fiber goes through: "find", "delay" and
\* "update" suspend it, "broadcast" publishes without suspending.

OnEnterAlwaysPersist(event, from) ==
  IF from = "none" THEN <<>> ELSE <<"find", "delay", "update", "broadcast">>

OnEnterBroadcastFirst(event, from) ==
  IF from = "none" THEN <<>>
  ELSE IF HasDone(event) THEN <<"broadcast", "find", "delay", "update">>
  ELSE <<"broadcast">>

OnEnterState(event, from) ==
  IF from = "none" THEN <<>>
  ELSE IF HasDone(event) THEN <<"find", "delay", "update", "broadcast">>
  ELSE <<"broadcast">>

RECURSIVE Lead(_)
\* number of steps at the head of a program that run without suspending
Lead(prog) ==
  IF prog # <<>> /\ Head(prog) = "broadcast" THEN 1 + Lead(Tail(prog)) ELSE 0

\* A persistence block without its catch: the failure ends the callback.
AfterTryUncaught(prog) == <<>>

RECURSIVE AfterTry(_)
\* the program after its try block was left through catch
AfterTry(prog) ==
  IF prog # <<>> /\ Head(prog) \in {"find", "delay", "update"}
  THEN AfterTry(Tail(prog)) ELSE prog

\* Run the fiber of transition tid from prog up to its next suspension.
RunFiber(tid, prog, snap, others) ==
  LET n == Lead(prog)
      rest == SubSeq(prog, n + 1, Len(prog))
      job == GetJob'
  IN /\ broadcasts' = broadcasts \o [i \in 1..n |-> [tid |-> tid, state |-> job.state]]
     /\ fibers' = others \cup
          (IF rest = <<>> THEN {} ELSE {[tid |-> tid, prog |-> rest, snap |-> snap]})

\* A valid event fires: the machine moves and calls onenterstate.
Enter(event) ==
  LET from == state
      to == Dest(event, from)
  IN IF to = from
     THEN UNCHANGED <<state, transitions, broadcasts, fibers>>
     ELSE /\ state' = to
          /\ transitions' = Append(transitions,
                                   [event |-> event, from |-> from, to |-> to])
          /\ RunFiber(Len(transitions) + 1, OnEnterState(event, from), "none", fibers)

----------------------------------------------------------------------------

\* initial: self.initialState === undefined ? 'ready' : self.initialState
\* A new job starts in ready; a restored job is given the state that was
\* persisted for it, taken here to be one of the states a job rests in.
InitialStates == {"ready", "running", "paused", "canceled", "complete"}

\* A registry whose first initialization went through: the default record
\* and its bot object.
RegistryUp ==
  /\ db = <<"null">>
  /\ records0 = 0
  /\ bots = {[key |-> "null", bot |-> [rec |-> 1, port |-> "null"]]}
  /\ loaded = 1
  /\ rpc = "done"
  /\ promise = "resolved"
  /\ log = <<"Bots router setup complete", "Bots instance initialized">>
  /\ failedAt = "none"
  /\ strategies = 0
  /\ discovered = 0

JobInit ==
  /\ state \in InitialStates
  /\ started = Undefined
  /\ swRunning = FALSE
  /\ ms = 0
  /\ issued = 0
  /\ inflight = {}
  /\ last = NoResult
  /\ transitions = <<>>
  /\ fibers = {}
  /\ writes = <<>>
  /\ broadcasts = <<>>
  /\ deviceCalls = <<>>

Init == JobInit /\ RegistryUp

\* processCommand(kind) is called: the command gets the next id.
Accept(kind) ==
  /\ issued < MaxCommands
  /\ issued' = issued + 1

\* The command returns to (result "done", "noop") or raises at ("raised") its
\* caller; dev is what its device call answered ("none": it made no call).
Return(id, kind, result, dev) ==
  last' = [id |-> id, kind |-> kind, result |-> result, device |-> dev]

\* Command c goes on to pc, or returns when pc is a result.
Goto(c, pc, dev) ==
  IF pc \in {"done", "raised"}
  THEN /\ inflight' = inflight \ {c}
       /\ Return(c.id, c.kind, pc, dev)
  ELSE /\ inflight' = (inflight \ {c}) \cup {[c EXCEPT !.pc = pc, !.dev = dev]}
       /\ UNCHANGED last

\* A head that calls the bot before it fires the command's event.
BeginDeviceFirst(kind, op) ==
  /\ Accept(kind)
  /\ UNCHANGED <<started, swRunning, ms, writes>>
  /\ deviceCalls' = Append(deviceCalls, op)
  /\ IF Can(kind, state)
     THEN /\ Enter(kind)
          /\ inflight' = inflight \cup {[id |-> issued + 1, kind |-> kind, pc |-> "device", dev |-> "none"]}
          /\ UNCHANGED last
     ELSE /\ Return(issued + 1, kind, "raised", "none")
          /\ UNCHANGED <<state, transitions, fibers, broadcasts, inflight>>

\* The head of start(), pause(), resume() and cancel(): fire the command's
\* event, look the bot up and call it.
Begin(kind, op) ==
  /\ Accept(kind)
  /\ UNCHANGED <<started, swRunning, ms, writes>>
  /\ IF Can(kind, state)
     THEN /\ Enter(kind)
          /\ deviceCalls' = Append(deviceCalls, op)
          /\ inflight' = inflight \cup {[id |-> issued + 1, kind |-> kind, pc |-> "device", dev |-> "none"]}
          /\ UNCHANGED last
     ELSE /\ Return(issued + 1, kind, "raised", "none")
          /\ UNCHANGED <<state, transitions, fibers, broadcasts, deviceCalls, inflight>>

\* A command without its early return: it goes through the state machine.
NoopMissing(kind) == Begin(kind, kind)

\* if (this.fsm.current === <target>) return;
Noop(kind) ==
  /\ Accept(kind)
  /\ Return(issued + 1, kind, "noop", "none")
  /\ UNCHANGED <<state, started, swRunning, ms, inflight, transitions, fibers,
                 writes, broadcasts, deviceCalls>>

\* processCommand's default case: throw `Command ... is not supported`.
Unsupported ==
  /\ Accept("unsupported")
  /\ Return(issued + 1, "unsupported", "raised", "none")
  /\ UNCHANGED <<state, started, swRunning, ms, inflight, transitions, fibers,
                 writes, broadcasts, deviceCalls>>

Start == Begin("start", "startJob")

Pause == IF state = "paused" THEN Noop("pause") ELSE Begin("pause", "pause")

\* A resume that returns quietly whenever the job is not paused.
ResumeLenient == IF state # "paused" THEN Noop("resume") ELSE Begin("resume", "resume")

Resume == IF state = "running" THEN Noop("resume") ELSE Begin("resume", "resume")

Cancel == Begin("cancel", "cancel")

DoneEvent(kind) == kind \o "Done"
FailEvent(kind) == kind \o "Fail"
\* pause and cancel wrap their last fsm call in bwait, start and resume do not
EndPc(kind) == IF kind \in {"pause", "cancel"} THEN "tail" ELSE "done"

\* A catch block that lets the failure out instead of firing the Fail event.
FireFailRethrow(c, dev) ==
  /\ Goto(c, "raised", dev)
  /\ UNCHANGED <<state, transitions, fibers, broadcasts>>

\* fsm.<kind>Fail() in a catch block: the last thing the command does.
FireFail(c, dev) ==
  IF Can(FailEvent(c.kind), state)
  THEN /\ Enter(FailEvent(c.kind))
       /\ Goto(c, EndPc(c.kind), dev)
  ELSE /\ Goto(c, "raised", dev)
       /\ UNCHANGED <<state, transitions, fibers, broadcasts>>

\* The bot's operation returns to command c.
DeviceReturns(c, ok) ==
  /\ c \in inflight
  /\ c.pc = "device"
  /\ UNCHANGED <<ms, issued, writes, deviceCalls>>
  /\ IF c.kind = "cancel" \/ ok
     THEN /\ started' = IF c.kind = "start" THEN 1 ELSE started
          /\ swRunning' = (c.kind \in {"start", "resume"})
          /\ Goto(c, "timer", IF ok THEN "ok" ELSE "fail")
          /\ UNCHANGED <<state, transitions, fibers, broadcasts>>
     ELSE /\ UNCHANGED <<started, swRunning>>
          /\ FireFail(c, "fail")

\* bwait(this.stopwatch.start() / stop()) resumes command c.
AfterTimer(c) ==
  /\ c \in inflight
  /\ c.pc = "timer"
  /\ UNCHANGED <<started, swRunning, ms, issued, writes, deviceCalls>>
  /\ IF Can(DoneEvent(c.kind), state)
     THEN /\ Enter(DoneEvent(c.kind))
          /\ Goto(c, EndPc(c.kind), c.dev)
     ELSE FireFail(c, c.dev)

\* bwait(this.fsm.<event>()) resumes command c, which logs and returns.
Finish(c) ==
  /\ c \in inflight
  /\ c.pc = "tail"
  /\ Goto(c, "done", c.dev)
  /\ UNCHANGED <<state, started, swRunning, ms, issued, transitions, fibers,
                 writes, broadcasts, deviceCalls>>

\* The persistence block of onenterstate resumes from one of its awaits.
FiberStep(f, ok) ==
  /\ f \in fibers
  /\ UNCHANGED <<state, started, swRunning, ms, issued, inflight, last,
                 transitions, deviceCalls>>
  /\ LET step == Head(f.prog)
         next == Tail(f.prog)
         others == fibers \ {f}
     IN CASE step = "find" /\ ok ->
               /\ RunFiber(f.tid, next, f.snap, others)
               /\ UNCHANGED writes
          [] step = "delay" /\ ok ->
               /\ RunFiber(f.tid, next, state, others)
               /\ UNCHANGED writes
          [] step = "update" ->
               /\ writes' = Append(writes,
                    [tid |-> f.tid, state |-> f.snap,
                     outcome |-> IF ok THEN "written" ELSE "failed"])
               /\ RunFiber(f.tid, next, f.snap, others)
          [] OTHER ->
               /\ writes' = Append(writes,
                    [tid |-> f.tid, state |-> "none", outcome |-> "failed"])
               /\ RunFiber(f.tid, AfterTry(next), f.snap, others)

\* The stopwatch's periodic tick: ms advances and the onTime callback
\* publishes getJob() of the state the tick leaves.
Tick ==
  /\ swRunning
  /\ ms < MaxMs
  /\ ms' = ms + 1
  /\ UNCHANGED <<state, started, swRunning, issued, inflight, last, transitions,
                 fibers, writes, broadcasts, deviceCalls>>

\* The bot finishes the file: it fires runningDone and stops the stopwatch.
RunningDone ==
  /\ state = "running"
  /\ Accept("runningDone")
  /\ swRunning' = FALSE
  /\ UNCHANGED <<started, ms, inflight, last, writes, deviceCalls>>
  /\ Enter("runningDone")

Continue ==
  /\ \E c \in inflight :
       \/ \E ok \in BOOLEAN : DeviceReturns(c, ok)
       \/ AfterTimer(c)
       \/ Finish(c)
  /\ UNCHANGED regvars

Persist ==
  /\ \E f \in fibers : \E ok \in BOOLEAN : FiberStep(f, ok)
  /\ UNCHANGED regvars

Next ==
  \/ Start /\ UNCHANGED regvars
  \/ Pause /\ UNCHANGED regvars
  \/ Resume /\ UNCHANGED regvars
  \/ Cancel /\ UNCHANGED regvars
  \/ Unsupported /\ UNCHANGED regvars
  \/ \E c \in inflight : \E ok \in BOOLEAN : DeviceReturns(c, ok) /\ UNCHANGED regvars
  \/ \E c \in inflight : AfterTimer(c) /\ UNCHANGED regvars
  \/ \E c \in inflight : Finish(c) /\ UNCHANGED regvars
  \/ \E f \in fibers : \E ok \in BOOLEAN : FiberStep(f, ok) /\ UNCHANGED regvars
  \/ Tick /\ UNCHANGED regvars
  \/ RunningDone /\ UNCHANGED regvars

Spec == Init /\ [][Next]_vars

\* Every device call returns and every resumed fiber gets to run.
FairSpec == Spec /\ WF_vars(Continue) /\ WF_vars(Persist)

----------------------------------------------------------------------------
\* Device registry: class Bots.

\* Connection identities of the records; `null` is the default record's port.
Ports == {"null", "usb"}

\* Entries a discovery directory can hold: a strategy and its source map.
DirEntries == {"usb.js", "usb.js.map"}

RECURSIVE SeqsUpTo(_, _)
SeqsUpTo(S, n) ==
  IF n = 0 THEN {<<>>}
  ELSE LET shorter == SeqsUpTo(S, n - 1)
       IN  shorter \cup {Append(q, x) : q \in shorter, x \in S}

\* new Bot(this.app, botSettings) for record number rec (0: not from a record).
NewBot(rec, port) == [rec |-> rec, port |-> port]

\* bot.getBot(): the settings of a bot, without the object.
GetBot(bot) == [port |-> bot.port]

Keys(m) == {e.key : e \in m}

\* An assignment that adds a second entry instead of replacing the first.
PutKeepBoth(m, key, bot) == m \cup {[key |-> key, bot |-> bot]}

\* m[key] = bot on a JavaScript object.
Put(m, key, bot) == {e \in m : e.key # key} \cup {[key |-> key, bot |-> bot]}

\* for (const dbBot of botsDbArray) { ...; this.bots[port] = new Bot(...) },
\* over the records i..n of arr.
RECURSIVE LoadBots(_, _, _, _)
LoadBots(m, arr, i, n) ==
  IF i > n THEN m
  ELSE LoadBots(Put(m, arr[i], NewBot(i, arr[i])), arr, i + 1, n)

\* getBots(): filteredBots[bot] = this.bots[bot].getBot() for every own key.
RECURSIVE GetBotsOf(_)
GetBotsOf(m) ==
  IF m = {} THEN {}
  ELSE LET e == CHOOSE x \in m : TRUE
       IN  Put(GetBotsOf(m \ {e}), e.key, GetBot(e.bot))

GetBots == GetBotsOf(bots)

\* A default record created whatever was loaded.
NeedsDefaultAlways(arr) == TRUE

\* if (botsDbArray.length === 0)
NeedsDefault(arr) == Len(arr) = 0

\* discoveryType.indexOf(`.map`) === -1
IsStrategy(entry) == entry # "usb.js.map"

RECURSIVE CountStrategies(_)
CountStrategies(dir) ==
  IF dir = <<>> THEN 0
  ELSE (IF IsStrategy(Head(dir)) THEN 1 ELSE 0) + CountStrategies(Tail(dir))

\* A catch block that logs and throws again.
CatchRethrow(at) ==
  /\ rpc' = "done"
  /\ promise' = "rejected"
  /\ log' = Append(log, "Bot initialization error")
  /\ failedAt' = at

\* catch (ex) { this.logger.error(`Bot initialization error`, ex); }
Catch(at) ==
  /\ rpc' = "done"
  /\ promise' = "resolved"
  /\ log' = Append(log, "Bot initialization error")
  /\ failedAt' = at

\* The constructor has run; initialize() has not been called.
RegistryNew ==
  /\ db \in SeqsUpTo(Ports, MaxRecords)
  /\ records0 = Len(db)
  /\ bots = {}
  /\ loaded = 0
  /\ rpc = "new"
  /\ promise = "pending"
  /\ log = <<>>
  /\ failedAt = "none"
  /\ strategies = 0
  /\ discovered = 0

\* initialize() is called and suspends in setupRouter, at botsRoutes.
Initialize ==
  /\ rpc = "new"
  /\ rpc' = "router"
  /\ UNCHANGED <<db, records0, bots, loaded, promise, log, failedAt,
                 strategies, discovered>>

\* setupRouter ends, having caught and logged its own failure; initialize
\* goes on to botModel.
RouterReturns(ok) ==
  /\ rpc = "router"
  /\ rpc' = "model"
  /\ log' = Append(log, IF ok THEN "Bots router setup complete"
                              ELSE "Bots router setup error")
  /\ UNCHANGED <<db, records0, bots, loaded, promise, failedAt, strategies,
                 discovered>>

\* botModel returns; initialize calls findAll.
ModelReturns(ok) ==
  /\ rpc = "model"
  /\ IF ok
     THEN /\ rpc' = "findAll"
          /\ UNCHANGED <<promise, log, failedAt>>
     ELSE Catch("model")
  /\ UNCHANGED <<db, records0, bots, loaded, strategies, discovered>>

\* The loop over the loaded records, the handle of record failAt failing to
\* construct (0: none does), and then the call of setupDiscovery, which
\* suspends at readdir.
LoadAll(arr, failAt) ==
  IF failAt = 0
  THEN /\ bots' = LoadBots(bots, arr, 1, Len(arr))
       /\ loaded' = Len(arr)
       /\ rpc' = "readdir"
       /\ UNCHANGED <<promise, log, failedAt>>
  ELSE /\ bots' = LoadBots(bots, arr, 1, failAt - 1)
       /\ loaded' = failAt - 1
       /\ Catch("construct")

\* The first findAll returns.
FindAllReturns(ok) ==
  /\ rpc = "findAll"
  /\ IF ~ok
     THEN Catch("findAll") /\ UNCHANGED <<bots, loaded>>
     ELSE IF NeedsDefault(db)
          THEN /\ rpc' = "create"
               /\ UNCHANGED <<bots, loaded, promise, log, failedAt>>
          ELSE \E failAt \in 0..Len(db) : LoadAll(db, failAt)
  /\ UNCHANGED <<db, records0, strategies, discovered>>

\* this.Bot.create(initialBotObject) returns; initialize calls findAll again.
CreateReturns(ok) ==
  /\ rpc = "create"
  /\ IF ok
     THEN /\ db' = Append(db, "null")
          /\ rpc' = "reload"
          /\ UNCHANGED <<promise, log, failedAt>>
     ELSE Catch("create") /\ UNCHANGED db
  /\ UNCHANGED <<records0, bots, loaded, strategies, discovered>>

\* The findAll after the create returns.
ReloadReturns(ok) ==
  /\ rpc = "reload"
  /\ IF ok
     THEN \E failAt \in 0..Len(db) : LoadAll(db, failAt)
     ELSE Catch("reload") /\ UNCHANGED <<bots, loaded>>
  /\ UNCHANGED <<db, records0, strategies, discovered>>

\* readdir returns the entries of the discovery directory; every entry that
\* is not a source map is required, constructed and initialized, strategy
\* number failAt throwing (0: none does).
ReaddirReturns(ok, dir, failAt) ==
  /\ rpc = "readdir"
  /\ IF ~ok
     THEN Catch("readdir") /\ UNCHANGED strategies
     ELSE IF failAt = 0
          THEN /\ strategies' = CountStrategies(dir)
               /\ rpc' = "done"
               /\ promise' = "resolved"
               /\ log' = Append(log, "Bots instance initialized")
               /\ UNCHANGED failedAt
          ELSE /\ failAt <= CountStrategies(dir)
               /\ strategies' = failAt - 1
               /\ Catch("strategy")
  /\ UNCHANGED <<db, records0, bots, loaded, discovered>>

\* A discovery strategy that was initialized registers a device it detected.
Discover(port) ==
  /\ strategies > 0
  /\ discovered < MaxDiscovered
  /\ discovered' = discovered + 1
  /\ bots' = Put(bots, port, NewBot(0, port))
  /\ UNCHANGED <<db, records0, loaded, rpc, promise, log, failedAt, strategies>>

RegInit == JobInit /\ state = "ready" /\ RegistryNew

RegNext ==
  \/ Initialize /\ UNCHANGED jobvars
  \/ \E ok \in BOOLEAN : RouterReturns(ok) /\ UNCHANGED jobvars
  \/ \E ok \in BOOLEAN : ModelReturns(ok) /\ UNCHANGED jobvars
  \/ \E ok \in BOOLEAN : FindAllReturns(ok) /\ UNCHANGED jobvars
  \/ \E ok \in BOOLEAN : CreateReturns(ok) /\ UNCHANGED jobvars
  \/ \E ok \in BOOLEAN : ReloadReturns(ok) /\ UNCHANGED jobvars
  \/ \E ok \in BOOLEAN : \E dir \in SeqsUpTo(DirEntries, MaxPlugins) :
       \E failAt \in 0..MaxPlugins : ReaddirReturns(ok, dir, failAt) /\ UNCHANGED jobvars
  \/ \E port \in Ports : Discover(port) /\ UNCHANGED jobvars

RegSpec == RegInit /\ [][RegNext]_vars

----------------------------------------------------------------------------
\* What the claims speak of.

\* Settled and transient (in-flight) states.
Settled == {"ready", "running", "paused", "canceled", "complete"}
Transient == {"starting", "pausing", "resuming", "canceling"}

\* The transition table of the job, event: from -> to.
TransitionTable ==
  { <<"start", "ready", "starting">>,
    <<"startFail", "starting", "ready">>,
    <<"startDone", "starting", "running">>,
    <<"pause", "running", "pausing">>,
    <<"pause", "paused", "paused">>,
    <<"pauseFail", "pausing", "running">>,
    <<"pauseDone", "pausing", "paused">>,
    <<"resume", "paused", "resuming">>,
    <<"resume", "running", "running">>,
    <<"resumeFail", "resuming", "paused">>,
    <<"resumeDone", "resuming", "running">>,
    <<"runningDone", "running", "complete">>,
    <<"cancel", "running", "canceling">>,
    <<"cancel", "paused", "canceling">>,
    <<"cancel", "starting", "canceling">>,
    <<"cancel", "pausing", "canceling">>,
    <<"cancel", "resuming", "canceling">>,
    <<"cancelFail", "canceling", "canceled">> }

HasRow(event, from) == \E r \in TransitionTable : r[1] = event /\ r[2] = from

\* The state a command's device call is awaited in, and the state its
\* failure returns the job to.
Awaiting(kind) ==
  CASE kind = "start" -> "starting" [] kind = "pause" -> "pausing"
    [] kind = "resume" -> "resuming" [] OTHER -> "canceling"
Back(kind) ==
  CASE kind = "start" -> "ready" [] kind = "pause" -> "running"
    [] kind = "resume" -> "paused" [] OTHER -> "canceled"

Tids == 1..Len(transitions)
PersistPending(t) == \E f \in fibers : f.tid = t
PersistFinished(t) == \E w \in 1..Len(writes) : writes[w].tid = t
BroadcastsOf(t) == {b \in 1..Len(broadcasts) : broadcasts[b].tid = t}

\* C1: a cancel command that was accepted (its cancel event fired, so it is
\* in flight) always leads to state canceled, whatever the device answers
\* and whatever else is in flight.
C1_CancelReachesCanceled ==
  (\E c \in inflight : c.kind = "cancel") ~> (state = "canceled")

\* A cancel whose device call failed has returned with the job canceled while
\* another command of the job is still in flight.
C1_Witness ==
  /\ state = "canceled"
  /\ last.kind = "cancel" /\ last.result = "done" /\ last.device = "fail"
  /\ inflight # {}

\* C2: state is always one of the nine job states, and every step that
\* changes state is exactly one transition, a row of the transition table
\* leading from the old state to the new one.
C2_StateFollowsTable ==
  /\ [](state \in JobStates)
  /\ [][state' # state =>
          /\ Len(transitions') = Len(transitions) + 1
          /\ LET t == transitions'[Len(transitions')]
             IN /\ t.from = state
                /\ t.to = state'
                /\ <<t.event, t.from, t.to>> \in TransitionTable]_vars

\* A cancel was accepted while a start was in flight, the start then raised,
\* and the job went on to canceled.
C2_Witness ==
  /\ state = "canceled"
  /\ \E t \in Tids : transitions[t].event = "cancel" /\ transitions[t].from = "starting"
  /\ last.kind = "start" /\ last.result = "raised"

\* Command c's device call fails in this step.
DeviceFails(c) ==
  /\ c \in inflight
  /\ c.pc = "device"
  /\ \/ c \notin inflight' /\ last' # last /\ last'.id = c.id /\ last'.device = "fail"
     \/ [c EXCEPT !.pc = "tail", !.dev = "fail"] \in inflight'

\* C3 as claimed: a start, pause or resume command whose device call failed
\* returns with the job back in ready, running or paused.
C3_FailedCommandReturnsBack ==
  [][(/\ last' # last
      /\ last'.kind \in {"start", "pause", "resume"}
      /\ last'.device = "fail")
     => state' = Back(last'.kind)]_vars

\* C3 amended: when the device call of a start, pause or resume command
\* fails and the job is still in starting, pausing or resuming, that step
\* puts the job back in ready, running or paused; when a cancel was accepted
\* in between, the step leaves the state alone and the command raises.
C3_FailureStep ==
  [][\A c \in inflight :
       (c.kind \in {"start", "pause", "resume"} /\ DeviceFails(c)) =>
         IF state = Awaiting(c.kind)
         THEN state' = Back(c.kind)
         ELSE /\ state' = state
              /\ last' = [id |-> c.id, kind |-> c.kind, result |-> "raised",
                          device |-> "fail"]]_vars

\* A command whose device call failed has returned with the job put back.
C3_Witness ==
  /\ last.kind \in {"start", "pause", "resume"}
  /\ last.device = "fail"
  /\ last.result = "done"
  /\ state = Back(last.kind)

\* The kind of the command this step receives ("none": it receives none).
Received ==
  IF issued' # issued + 1 THEN "none"
  ELSE IF \E c \in inflight' : c.id = issued'
       THEN (CHOOSE c \in inflight' : c.id = issued').kind
       ELSE IF last'.id = issued' THEN last'.kind ELSE "none"

\* C4: a command whose event has no row for the current state raises to its
\* caller and changes nothing: not the state, the stopwatch, the device, the
\* persisted snapshots, the broadcasts or the commands in flight.
C4_InvalidCommandHasNoEffect ==
  [][\A k \in Kinds :
       (Received = k /\ ~HasRow(k, state)) =>
         /\ last' = [id |-> issued', kind |-> k, result |-> "raised",
                     device |-> "none"]
         /\ UNCHANGED <<state, started, swRunning, ms, inflight, transitions,
                        fibers, writes, broadcasts, deviceCalls>>]_vars

\* A command was refused on a canceled or complete job.
C4_Witness ==
  /\ last.result = "raised" /\ last.device = "none"
  /\ state \in {"canceled", "complete"}
  /\ transitions # <<>>

C6_SettledMeansTimerStopped ==
  (state \in {"paused", "canceled", "complete"}) => ~swRunning

\* C7 as claimed: every transition into a settled state triggers a snapshot
\* write: its persistence is pending or has finished.
C7_SettledEntryIsPersisted ==
  \A t \in Tids :
    (transitions[t].to \in Settled) => (PersistPending(t) \/ PersistFinished(t))

\* C8 as claimed: the state a snapshot write stores is a settled state.
C8_WritesStoreSettledStates ==
  \A w \in 1..Len(writes) :
    (writes[w].outcome = "written") => (writes[w].state \in Settled)

\* C9: a transition into starting, pausing, resuming or canceling triggers no
\* persistence and exactly one broadcast.
C9_TransientEntryBroadcastsOnly ==
  \A t \in Tids :
    (transitions[t].to \in Transient) =>
      /\ ~PersistPending(t)
      /\ ~PersistFinished(t)
      /\ Cardinality(BroadcastsOf(t)) = 1

\* The job entered a transient state while the persistence of an earlier
\* transition was still pending.
C9_Witness ==
  \E t \in Tids :
    /\ transitions[t].to \in Transient
    /\ \E f \in fibers : f.tid < t

\* C10: a transition that triggers persistence is not broadcast while its
\* persistence is pending: when its broadcast is out, its write or failed
\* attempt has finished.
C10_WriteBeforeBroadcast ==
  \A b \in 1..Len(broadcasts) :
    LET t == broadcasts[b].tid
    IN /\ ~PersistPending(t)
       /\ HasDone(transitions[t].event) => PersistFinished(t)

\* The broadcasts of a written and of a failed snapshot are both out.
C10_Witness ==
  /\ \E w \in 1..Len(writes) :
       writes[w].outcome = "written" /\ BroadcastsOf(writes[w].tid) # {}
  /\ \E w \in 1..Len(writes) :
       writes[w].outcome = "failed" /\ BroadcastsOf(writes[w].tid) # {}

\* C11 as claimed: every broadcast of a transition carries that transition's
\* destination state, and the broadcasts come in the order of the
\* transitions.
C11_BroadcastsCoherentAndOrdered ==
  /\ \A b \in 1..Len(broadcasts) :
       broadcasts[b].state = transitions[broadcasts[b].tid].to
  /\ \A a, b \in 1..Len(broadcasts) :
       (a < b) => (broadcasts[a].tid < broadcasts[b].tid)

\* C12 as claimed: the projection's started and elapsed are both null until
\* a start has gone through, and from then on both are set, elapsed being a
\* number >= 0.
C12_StartedAndElapsedTogether ==
  IF started = Undefined
  THEN GetJob.started = Null /\ GetJob.elapsed = Null
  ELSE GetJob.started # Null /\ GetJob.elapsed >= 0

\* C13: a pause received in paused, and a resume received in running, return
\* without a device call, a transition, a write or a broadcast, and leave the
\* stopwatch and the state alone.
C13_NoopCommands ==
  [][((Received = "pause" /\ state = "paused")
       \/ (Received = "resume" /\ state = "running")) =>
        /\ last'.id = issued' /\ last'.result = "noop"
        /\ UNCHANGED <<state, started, swRunning, ms, inflight, transitions,
                       fibers, writes, broadcasts, deviceCalls>>]_vars

\* A job that was paused by a pause command received pause again.
C13_Witness ==
  /\ last.kind = "pause" /\ last.result = "noop"
  /\ state = "paused"
  /\ \E t \in Tids : transitions[t].event = "pauseDone"

\* C14 as claimed: a command whose device call failed returns normally.
C14_DeviceFailureIsAbsorbed == (last.device = "fail") => (last.result = "done")

\* C14 amended: an unsupported command raises and changes nothing; every
\* raise is an unsupported command or an event fired without a row for the
\* current state; a failed device call is absorbed while the job is still in
\* the state the command awaited it in (a cancel's always is); a finished
\* persistence attempt, failed or not, touches no command.
C14_RaisesOnlyForInvalid ==
  [][/\ (Received = "unsupported") =>
          /\ last' = [id |-> issued', kind |-> "unsupported",
                      result |-> "raised", device |-> "none"]
          /\ UNCHANGED <<state, started, swRunning, ms, inflight, transitions,
                         fibers, writes, broadcasts, deviceCalls>>
     /\ (last' # last /\ last'.result = "raised") =>
          \/ last'.kind = "unsupported"
          \/ last'.device = "none" /\ ~HasRow(last'.kind, state)
          \/ last'.device # "none" /\ ~HasRow(FailEvent(last'.kind), state)
     /\ \A c \in inflight :
          (DeviceFails(c) /\ state = Awaiting(c.kind)) =>
             ~(last' # last /\ last'.result = "raised")
     /\ \A c \in inflight :
          (c.kind = "cancel" /\ c.pc = "device") =>
             ~(last' # last /\ last'.id = c.id /\ last'.result = "raised")
     /\ (writes' # writes) => UNCHANGED <<inflight, last>>]_vars

\* An unsupported command was refused, and earlier a device failure was
\* absorbed: the command returned and the job is back where it was.
C14_Witness ==
  /\ last.kind = "unsupported" /\ last.result = "raised"
  /\ \E t \in Tids : transitions[t].event \in {"startFail", "pauseFail", "resumeFail"}

\* C15: a failed persistence read or write leaves the state and the commands
\* as they are, and the broadcast of its transition goes out in the same
\* run; the failure is behind a transition that stays made.
C15_PersistenceFailureDoesNotBlock ==
  [][(writes' # writes /\ writes'[Len(writes')].outcome = "failed") =>
        /\ UNCHANGED <<state, transitions, inflight, last>>
        /\ \E b \in (Len(broadcasts) + 1)..Len(broadcasts') :
             broadcasts'[b].tid = writes'[Len(writes')].tid]_vars

\* A snapshot read failed, its broadcast is out, and a later command made a
\* further transition.
C15_Witness ==
  \E w \in 1..Len(writes) :
    /\ writes[w].outcome = "failed" /\ writes[w].state = "none"
    /\ BroadcastsOf(writes[w].tid) # {}
    /\ \E t \in Tids : t > writes[w].tid

\* The steps of initialize() before discovery: a failure there keeps the
\* records from becoming bot objects.
LoadingSteps == {"model", "findAll", "create", "reload", "construct"}

\* The entries of the mapping under one key.
EntriesOf(m, key) == {e \in m : e.key = key}

\* The last of the loaded records that has the port.
LastLoaded(port) ==
  CHOOSE i \in 1..loaded : db[i] = port /\ \A j \in (i + 1)..loaded : db[j] # port

\* C16 as claimed: when initialize() has ended, a registry that started with
\* no record has exactly the default record and exactly one bot object, and
\* one that started with records has the same number of records.
C16_DefaultRecordAfterInit ==
  (rpc = "done" /\ discovered = 0) =>
     IF records0 = 0
     THEN db = <<"null">> /\ Cardinality(bots) = 1
     ELSE Len(db) = records0

\* C16 amended: the same, for a registry that started with no record, when
\* no step before discovery failed; when one did, there is at most the
\* default record and no bot object. No record is ever created when there
\* was one.
C16_DefaultRecordUnlessFailed ==
  /\ (rpc = "done" /\ discovered = 0 /\ records0 = 0) =>
        IF failedAt \notin LoadingSteps
        THEN /\ db = <<"null">>
             /\ bots = {[key |-> "null", bot |-> NewBot(1, "null")]}
        ELSE /\ db \in {<<>>, <<"null">>}
             /\ bots = {}
  /\ (records0 >= 1) => (Len(db) = records0)

\* A registry that started empty has ended its initialization with the
\* default record and its bot object.
C16_Witness ==
  /\ records0 = 0 /\ rpc = "done" /\ failedAt = "none"
  /\ db = <<"null">> /\ Cardinality(bots) = 1

\* C17: the mapping has at most one bot object under each key; the object
\* of a loaded record's port is that of the last loaded record with that
\* port, unless a discovered device took the key; getBots has exactly one
\* projection for each key of the mapping.
C17_OneHandlePerId ==
  /\ \A p \in Ports : Cardinality(EntriesOf(bots, p)) <= 1
  /\ \A e \in bots :
       /\ e.bot.port = e.key
       /\ (e.bot.rec > 0) => (e.bot.rec <= loaded /\ e.bot.rec = LastLoaded(e.key))
  /\ \A i \in 1..loaded : db[i] \in Keys(bots)
  /\ Keys(GetBots) = Keys(bots)
  /\ \A p \in Keys(bots) :
       /\ Cardinality(EntriesOf(GetBots, p)) = 1
       /\ \A e \in EntriesOf(bots, p) : [key |-> p, bot |-> GetBot(e.bot)] \in GetBots

\* Two records with the same port were loaded: one bot object, the second's.
C17_Witness ==
  /\ loaded = 2 /\ db[1] = db[2]
  /\ bots = {[key |-> db[2], bot |-> NewBot(2, db[2])]}

\* C18: initialize() never rejects; a step that threw is logged and ends
\* it; the bot objects of the records loaded before the failure are in the
\* mapping, and no step takes a key out of the mapping.
C18_InitFailureIsLogged ==
  /\ [](promise # "rejected")
  /\ []((failedAt # "none") =>
          /\ rpc = "done" /\ promise = "resolved"
          /\ \E l \in 1..Len(log) : log[l] = "Bot initialization error"
          /\ \A i \in 1..loaded : db[i] \in Keys(bots))
  /\ [][Keys(bots) \subseteq Keys(bots')
        /\ ((failedAt = "none" /\ failedAt' \notin {"none", "construct"}) =>
               bots' = bots)]_vars

\* The second record's bot object failed to construct; the first's is there.
C18_Witness ==
  /\ failedAt = "construct" /\ loaded = 1 /\ Len(db) = 2
  /\ bots = {[key |-> db[1], bot |-> NewBot(1, db[1])]}
  /\ promise = "resolved"

\* The start, pause and resume commands that are awaiting the device.
AwaitingDevice ==
  {c \in inflight : c.kind \in {"start", "pause", "resume"} /\ c.pc = "device"}

\* C19: a start, pause or resume received in starting, pausing or resuming
\* raises before any device call and leaves the state, the commands in
\* flight and everything else as they were; at most one start, pause or
\* resume awaits the device at any time.
C19_OneCommandAtATime ==
  /\ [](Cardinality(AwaitingDevice) <= 1)
  /\ [][(Received \in {"start", "pause", "resume"}
          /\ state \in {"starting", "pausing", "resuming"}) =>
           /\ last'.id = issued' /\ last'.result = "raised"
           /\ last'.device = "none"
           /\ UNCHANGED <<state, started, swRunning, ms, inflight, transitions,
                          fibers, writes, broadcasts, deviceCalls>>]_vars

\* A pause was refused while a start is still awaiting the device.
C19_Witness ==
  /\ last.kind = "pause" /\ last.result = "raised"
  /\ state = "starting"
  /\ \E c \in AwaitingDevice : c.kind = "start"

\* C20 as claimed: a cancel received in starting, pausing, resuming or
\* canceling raises, leaves the state alone and calls no device cancel.
C20_CancelRejectedInFlight ==
  [][(Received = "cancel" /\ state \in Transient) =>
        /\ last'.id = issued' /\ last'.result = "raised"
        /\ UNCHANGED <<state, deviceCalls>>]_vars

\* C20 amended: a cancel received in starting, pausing or resuming is
\* accepted, the job enters canceling and the device's cancel is called; a
\* cancel received in canceling raises, the state and the device untouched.
C20_CancelInFlight ==
  [][/\ (Received = "cancel" /\ state \in {"starting", "pausing", "resuming"}) =>
          /\ state' = "canceling"
          /\ deviceCalls' = Append(deviceCalls, "cancel")
          /\ \E c \in inflight' : c.id = issued' /\ c.kind = "cancel" /\ c.pc = "device"
          /\ last' = last
     /\ (Received = "cancel" /\ state = "canceling") =>
          /\ last'.id = issued' /\ last'.result = "raised"
          /\ UNCHANGED <<state, inflight, transitions, deviceCalls>>]_vars

\* A cancel was accepted while a start was in flight and reached the device.
C20_Witness ==
  /\ \E t \in Tids : transitions[t].event = "cancel" /\ transitions[t].from = "starting"
  /\ \E d \in 1..Len(deviceCalls) : deviceCalls[d] = "cancel"

====
